---- MODULE Spec2Model ----
(***************************************************************************)
(* Model of src/components/data_transformation.py: the preprocessing       *)
(* pipeline builder (get_data_transformer_object) and the fit/apply        *)
(* orchestration (initiate_data_transformation), with the structured error *)
(* of src/exception.py.                                                    *)
(*                                                                         *)
(* Numbers.  A table cell is <<>> (missing, pandas NaN) or <<v>>.  Numeric *)
(* statistics are kept exactly: a median is held as twice its value        *)
(* (numpy averages the two middle values of an even-sized sample), and an  *)
(* output cell is the triple <<num, rad, div>> that stands for the real    *)
(* number num / sqrt(rad) when rad > 0 and num / div when rad = 0 (the     *)
(* scaler replaces a zero standard deviation by 1).                        *)
(***************************************************************************)
EXTENDS Integers, Sequences, FiniteSets, TLC

\* ---------------------------------------------------------------- bounds
MaxTrainRows == 3
MaxTestRows == 1

\* ------------------------------------------------------- column partition
numerical_columns == <<"writing_score", "reading_score">>

categorical_columns ==
    <<"gender", "race_ethnicity", "parental_level_of_education", "lunch",
      "test_preparation_course">>

target_column_name == "math_score"

preprocessor_obj_file_path == "artifacts/preprocessor.pkl"

\* ------------------------------------------------------------- utilities
Range(s) == {s[i] : i \in DOMAIN s}

SeqUpTo(S, n) == UNION {[1..k -> S] : k \in 0..n}

RECURSIVE SumSeq(_)
SumSeq(s) == IF s = <<>> THEN 0 ELSE Head(s) + SumSeq(Tail(s))

RECURSIVE Flatten(_)
Flatten(ss) == IF ss = <<>> THEN <<>> ELSE Head(ss) \o Flatten(Tail(ss))

\* pandas NaN: the value of an empty field, whatever the column's type.
NaN == <<>>

\* Python's order on the strings that occur as category levels (used by the
\* most-frequent tie-break and by the encoder's sorted level list).
LevelOrder ==
    <<"bachelor's degree", "completed", "female", "free/reduced", "group B",
      "group C", "male", "none", "some college", "standard">>

LevelRank(l) == CHOOSE i \in DOMAIN LevelOrder : LevelOrder[i] = l

SortedLevels(S) == SelectSeq(LevelOrder, LAMBDA l : l \in S)

\* ----------------------------------------------------------- input files
\* The header of the data set's CSV files and a pool of records; a file is a
\* header and a sequence of records of the pool.
FullHeader ==
    <<"gender", "race_ethnicity", "parental_level_of_education", "lunch",
      "test_preparation_course", "math_score", "reading_score",
      "writing_score">>

ExtraColumn == "student_id"

RecordPool ==
    { <<"female", "group B", "bachelor's degree", "standard", "none", "7", "6", "4">>,
      <<"male", "group C", "some college", "free/reduced", "completed", "5", "8", "9">>,
      <<"", "group C", "some college", "free/reduced", "completed", "8", "3", "">>,
      <<"female", "group B", "bachelor's degree", "", "none", "6", "", "">> }

\* The shapes a file can have: the full schema, the schema plus a column in
\* neither list, the schema without the target, the schema without a listed
\* feature column.
DropField(s, k) == [i \in 1..(Len(s) - 1) |-> IF i < k THEN s[i] ELSE s[i + 1]]

Position(s, x) == CHOOSE i \in DOMAIN s : s[i] = x

CsvFile(shape, recs) ==
    CASE shape = "full" ->
           [header |-> FullHeader, records |-> recs]
      [] shape = "extra" ->
           [header |-> <<ExtraColumn>> \o FullHeader,
            records |-> [i \in DOMAIN recs |-> <<ToString(i)>> \o recs[i]]]
      [] shape = "no_target" ->
           [header |-> DropField(FullHeader, Position(FullHeader, target_column_name)),
            records |-> [i \in DOMAIN recs |->
                           DropField(recs[i], Position(FullHeader, target_column_name))]]
      [] shape = "no_feature" ->
           [header |-> DropField(FullHeader, Position(FullHeader, "lunch")),
            records |-> [i \in DOMAIN recs |->
                           DropField(recs[i], Position(FullHeader, "lunch"))]]

ShapePairs ==
    { <<"full", "full">>, <<"extra", "extra">>, <<"no_target", "full">>,
      <<"full", "no_target">>, <<"no_feature", "full">>, <<"full", "no_feature">> }

\* ------------------------------------------------------------ pd.read_csv
\* The text of a number, as the files of the model write it.
Digits == <<"0", "1", "2", "3", "4", "5", "6", "7", "8", "9">>

IsNumericText(f) == f \in Range(Digits)

ParseInt(f) == Position(Digits, f) - 1

\* A data frame: the ordered column names and, per row, a value per column
\* name.  An empty field is read as NaN; a column whose non-empty fields are
\* all numbers is parsed as numbers, any other column keeps its strings.
read_csv(file) ==
    LET k(c) == Position(file.header, c)
        numeric(c) == \A i \in DOMAIN file.records :
                         file.records[i][k(c)] = "" \/ IsNumericText(file.records[i][k(c)])
    IN  [columns |-> file.header,
         rows |-> [i \in DOMAIN file.records |->
                     [c \in Range(file.header) |->
                        LET f == file.records[i][k(c)]
                        IN  IF f = "" THEN NaN
                            ELSE IF numeric(c) THEN <<ParseInt(f)>> ELSE <<f>>]]]

\* ------------------------------------------------------- pandas helpers
ColumnValues(X, c) == [i \in DOMAIN X.rows |-> X.rows[i][c]]

\* DataFrame.drop(columns=[name]): KeyError when the column is absent.
HasColumn(df, name) == name \in Range(df.columns)

drop(df, name) ==
    [columns |-> SelectSeq(df.columns, LAMBDA c : c # name),
     rows |-> [i \in DOMAIN df.rows |->
                 [c \in Range(df.columns) \ {name} |-> df.rows[i][c]]]]

\* The values of a column that are not missing, in row order.
Observed(col) ==
    LET present == SelectSeq(col, LAMBDA v : v # NaN)
    IN  [i \in DOMAIN present |-> present[i][1]]

\* ------------------------------------------------- SimpleImputer (fit)
\* np.median of a non-empty sample, doubled: the middle value of the sorted
\* sample, or the mean of the two middle values.
Median2(vals) ==
    LET s == SortSeq(vals, LAMBDA a, b : a < b)
        n == Len(s)
    IN  IF n % 2 = 1 THEN 2 * s[(n + 1) \div 2]
        ELSE s[n \div 2] + s[(n \div 2) + 1]

\* The most frequent value; among equally frequent values, the smallest.
Count(vals, x) == Cardinality({i \in DOMAIN vals : vals[i] = x})

MostFrequent(vals) ==
    LET best == CHOOSE x \in Range(vals) :
                   \A y \in Range(vals) : Count(vals, y) <= Count(vals, x)
        top == {x \in Range(vals) : Count(vals, x) = Count(vals, best)}
    IN  CHOOSE x \in top : \A y \in top : LevelRank(x) <= LevelRank(y)

\* statistics_ of a fitted imputer: per column the learned statistic, NaN for
\* a column with no observed value.
ImputerFit(strategy, X, cols) ==
    [c \in Range(cols) |->
       LET vals == Observed(ColumnValues(X, c))
       IN  IF vals = <<>> THEN NaN
           ELSE IF strategy = "median" THEN <<Median2(vals)>>
           ELSE <<MostFrequent(vals)>>]

\* transform drops the columns whose statistic is NaN (keep_empty_features is
\* off) and fills the missing values of the others.
ImputerKept(statistics, cols) == SelectSeq(cols, LAMBDA c : statistics[c] # NaN)

\* A numeric value after imputation, doubled.
ImputedNumber2(v, statistic) == IF v = NaN THEN statistic[1] ELSE 2 * v[1]

ImputedLevel(v, statistic) == IF v = NaN THEN statistic[1] ELSE v[1]

\* ------------------------------------------------------- StandardScaler
\* Learned from a column xs of n values: the sum (mean_ = sum / n) and
\* n^2 * var_ = n * sum of squares - sum^2.
ScalerFit(xs) ==
    [sum |-> SumSeq(xs), n |-> Len(xs),
     var |-> Len(xs) * SumSeq([i \in DOMAIN xs |-> xs[i] * xs[i]])
               - SumSeq(xs) * SumSeq(xs)]

\* (x - mean_) / scale_ of a doubled value x2; scale_ is 1 when var_ is 0.
StandardizeCell(x2, sc) == <<sc.n * x2 - sc.sum, sc.var, 2 * sc.n>>

\* An indicator e scaled without centring: e / scale_.
ScaleIndicatorCell(e, sc) == <<sc.n * e, sc.var, sc.n>>

\* ------------------------------------------------------ the two pipelines
NumPipelineFit(X, cols) ==
    LET statistics == ImputerFit("median", X, cols)
        kept == ImputerKept(statistics, cols)
    IN  [statistics |-> statistics,
         kept |-> kept,
         scaler |-> [c \in Range(kept) |->
                       ScalerFit([i \in DOMAIN X.rows |->
                                    ImputedNumber2(X.rows[i][c], statistics[c])])]]

CatPipelineFit(X, cols) ==
    LET statistics == ImputerFit("most_frequent", X, cols)
        kept == ImputerKept(statistics, cols)
        level(i, c) == ImputedLevel(X.rows[i][c], statistics[c])
        categories == [c \in Range(kept) |->
                         SortedLevels({level(i, c) : i \in DOMAIN X.rows})]
    IN  [statistics |-> statistics,
         kept |-> kept,
         categories |-> categories,
         scaler |-> [c \in Range(kept) |->
                       [l \in Range(categories[c]) |->
                          ScalerFit([i \in DOMAIN X.rows |->
                                       IF level(i, c) = l THEN 1 ELSE 0])]]]

NumPipelineRow(num, row) ==
    [k \in DOMAIN num.kept |->
       StandardizeCell(ImputedNumber2(row[num.kept[k]], num.statistics[num.kept[k]]),
                       num.scaler[num.kept[k]])]

CatPipelineRow(cat, row) ==
    Flatten([k \in DOMAIN cat.kept |->
               LET c == cat.kept[k]
                   l == ImputedLevel(row[c], cat.statistics[c])
               IN  [j \in DOMAIN cat.categories[c] |->
                      ScaleIndicatorCell(IF cat.categories[c][j] = l THEN 1 ELSE 0,
                                         cat.scaler[c][cat.categories[c][j]])]])

\* OneHotEncoder.transform with handle_unknown = "error" (the default).
UnknownLevel(cat, row) ==
    \E k \in DOMAIN cat.kept :
       ImputedLevel(row[cat.kept[k]], cat.statistics[cat.kept[k]])
          \notin Range(cat.categories[cat.kept[k]])

\* ---------------------------------------------------- ColumnTransformer
Unfitted == [fitted |-> FALSE]

\* The unfitted preprocessor: the two pipelines with the columns each gets;
\* a column in neither list is dropped (remainder = "drop", the default).
ColumnTransformer(transformers) ==
    [transformers |-> transformers, remainder |-> "drop", params |-> Unfitted]

ListedColumns(obj) == obj.transformers[1].columns \o obj.transformers[2].columns

MissingColumns(obj, X) ==
    SelectSeq(ListedColumns(obj), LAMBDA c : ~HasColumn(X, c))

\* The stacked output is sparse when its density is below sparse_threshold
\* (0.3): the dense numeric block counts in full, the one-hot block stores one
\* entry per row and kept categorical column.
SparseOutput(num, cat) ==
    LET width == SumSeq([k \in DOMAIN cat.kept |-> Len(cat.categories[cat.kept[k]])])
    IN  10 * (Len(num.kept) + Len(cat.kept)) < 3 * (Len(num.kept) + width)

ValueError(text) == [type |-> "ValueError", args |-> text]

\* ColumnTransformer.fit: [ok, params] or [ok, error].
ColumnTransformerFit(obj, X) ==
    LET num == NumPipelineFit(X, obj.transformers[1].columns)
        cat == CatPipelineFit(X, obj.transformers[2].columns)
    IN  IF MissingColumns(obj, X) # <<>>
          THEN [ok |-> FALSE,
                error |-> ValueError(<<"A given column is not a column of the dataframe">>)]
        ELSE IF Len(X.rows) = 0
          THEN [ok |-> FALSE, error |-> ValueError(<<"Found array with 0 sample(s)">>)]
        ELSE IF num.kept = <<>> \/ cat.kept = <<>>
          THEN [ok |-> FALSE, error |-> ValueError(<<"Found array with 0 feature(s)">>)]
        ELSE [ok |-> TRUE,
              params |-> [fitted |-> TRUE, num |-> num, cat |-> cat,
                          sparse_output |-> SparseOutput(num, cat)]]

\* A transform that fits again on the table it is given.
ColumnTransformerTransformRefits(obj, X) ==
    LET fit == ColumnTransformerFit(obj, X)
    IN  IF ~fit.ok THEN fit
        ELSE [ok |-> TRUE, obj |-> [obj EXCEPT !.params = fit.params], fits |-> 1,
              arr |-> [sparse |-> fit.params.sparse_output,
                       rows |-> [i \in DOMAIN X.rows |->
                                   NumPipelineRow(fit.params.num, X.rows[i])
                                     \o CatPipelineRow(fit.params.cat, X.rows[i])]]]

\* ColumnTransformer.transform with learned parameters: [ok, obj, arr, fits]
\* or [ok, error]; arr is the stacked matrix, numeric block first, obj the
\* transformer after the call (transform learns nothing: fits = 0).
ColumnTransformerTransform(obj, X) ==
    IF ~obj.params.fitted
      THEN [ok |-> FALSE,
            error |-> [type |-> "NotFittedError",
                       args |-> <<"This ColumnTransformer instance is not fitted yet">>]]
    ELSE IF MissingColumns(obj, X) # <<>>
      THEN [ok |-> FALSE,
            error |-> ValueError(<<"columns are missing:">> \o MissingColumns(obj, X))]
    ELSE IF Len(X.rows) = 0
      THEN [ok |-> FALSE, error |-> ValueError(<<"Found array with 0 sample(s)">>)]
    ELSE IF \E i \in DOMAIN X.rows : UnknownLevel(obj.params.cat, X.rows[i])
      THEN [ok |-> FALSE, error |-> ValueError(<<"Found unknown categories">>)]
    ELSE [ok |-> TRUE, obj |-> obj, fits |-> 0,
          arr |-> [sparse |-> obj.params.sparse_output,
                   rows |-> [i \in DOMAIN X.rows |->
                               NumPipelineRow(obj.params.num, X.rows[i])
                                 \o CatPipelineRow(obj.params.cat, X.rows[i])]]]

\* fit_transform: fit, then the transform of the same table.
ColumnTransformerFitTransform(obj, X) ==
    LET fit == ColumnTransformerFit(obj, X)
        fitted == [obj EXCEPT !.params = fit.params]
    IN  IF ~fit.ok THEN fit
        ELSE [ok |-> TRUE, obj |-> fitted, fits |-> 1,
              arr |-> ColumnTransformerTransform(fitted, X).arr]

\* ------------------------------------------------------------------ numpy
\* np.array(series): the target values as matrix cells.
TargetCell(v) == IF v = NaN THEN NaN ELSE <<v[1], 0, 1>>

\* The target put first instead of last.
ConcatColumnsTargetFirst(arr, target) ==
    [i \in DOMAIN arr.rows |-> <<TargetCell(target[i])>> \o arr.rows[i]]

\* np.c_[arr, target]: the target appended as the last column.  A sparse
\* matrix is taken as one object, whose shape does not match the target's.
\* (The stacked output turns sparse from 22 one-hot columns on; the tables of
\* RecordPool stay below that, as the data set itself does.)
ConcatFails(arr) == arr.sparse

ConcatColumns(arr, target) ==
    [i \in DOMAIN arr.rows |-> Append(arr.rows[i], TargetCell(target[i]))]

\* ------------------------------------------------------- src/exception.py
ScriptName == "src/components/data_transformation.py"

Str(e) == IF e.type = "CustomException" THEN e.error_message ELSE e.args

error_message_detail(error, line_number) ==
    <<"Error occurred in python script name [", ScriptName, "] line number [",
      ToString(line_number), "] error message [">> \o Str(error) \o <<"]">>

\* What becomes of the print of line 57 in CustomException.__init__:
\*   "printed"      the message is on sys.stdout (or there is no sys.stdout,
\*                  and print does nothing);
\*   "closed"       sys.stdout is a closed file: print raises ValueError;
\*   "write_fails"  the write to sys.stdout fails: print raises OSError.
StdoutOutcomes == {"printed", "closed", "write_fails"}

\* The error print raises; the exception being handled is its context.
PrintError(stdout, error) ==
    [type |-> IF stdout = "closed" THEN "ValueError" ELSE "OSError",
     args |-> IF stdout = "closed" THEN <<"I/O operation on closed file.">>
              ELSE <<"[Errno 5] Input/output error">>,
     context |-> error]

\* raise CustomException(e, sys) in a handler, for a failure at a statement
\* of line line_number: what is raised is the CustomException, with the
\* exception being handled as its context, or, when the print of __init__
\* fails, the error of the print.
CustomException(error, line_number, stdout) ==
    IF stdout = "printed"
      THEN [type |-> "CustomException",
            error_message |-> error_message_detail(error, line_number),
            context |-> error]
      ELSE PrintError(stdout, error)

\* ------------------------------------------------------------------ state
VARIABLES
    pc,                       \* the statement initiate_data_transformation is at
    artifact,                 \* the file at preprocessor_obj_file_path
    log_lost,                 \* a log record was lost to a failing handler
    train_df, test_df,
    preprocessing_obj,
    input_feature_train_df, target_feature_train_df,
    input_feature_test_df, target_feature_test_df,
    input_feature_train_arr, input_feature_test_arr,
    train_arr, test_arr,
    result,                   \* what the caller receives on return
    error,                    \* the exception the caller receives
    n_fit                     \* how often the preprocessor has been fitted

locals ==
    <<train_df, test_df, preprocessing_obj, input_feature_train_df,
      target_feature_train_df, input_feature_test_df, target_feature_test_df,
      input_feature_train_arr, input_feature_test_arr, train_arr, test_arr>>

vars == <<pc, artifact, log_lost, locals, result, error, n_fit>>

Unbound == [unbound |-> TRUE]

NoArtifact == [exists |-> FALSE]

\* An artifact left at the location by an earlier run.
PriorArtifact == [exists |-> TRUE, obj |-> [prior |-> TRUE]]

InitLocals ==
    /\ pc = "read"
    /\ log_lost = FALSE
    /\ train_df = Unbound /\ test_df = Unbound
    /\ preprocessing_obj = Unbound
    /\ input_feature_train_df = Unbound /\ target_feature_train_df = Unbound
    /\ input_feature_test_df = Unbound /\ target_feature_test_df = Unbound
    /\ input_feature_train_arr = Unbound /\ input_feature_test_arr = Unbound
    /\ train_arr = Unbound /\ test_arr = Unbound
    /\ result = Unbound
    /\ error = Unbound
    /\ n_fit = 0

\* A call that finds an artifact of an earlier run at the location.
Init == InitLocals /\ artifact = PriorArtifact

\* A first call: nothing at the location yet.
InitLogging == InitLocals /\ artifact = NoArtifact

\* ---------------------------------------------------------------- logging
\* What becomes of a record that logging.info hands to the FileHandler that
\* src/logger.py installs with logging.basicConfig:
\*   "written"        the record is in the log file;
\*   "reported"       the write fails inside StreamHandler.emit, which calls
\*                    Handler.handleError: the failure is printed to
\*                    sys.stderr (or dropped when there is no sys.stderr or
\*                    the print fails with OSError) and the call returns;
\*   "stderr_closed"  the write fails and sys.stderr is a closed file: the
\*                    print of handleError raises ValueError, and handleError
\*                    catches OSError only;
\*   "reopen_fails"   the handler's stream has been closed and
\*                    FileHandler.emit cannot open the log file again; it
\*                    calls _open outside the try of StreamHandler.emit.
HandlerWorks == {"written"}

HandlerMayFail == {"written", "reported", "stderr_closed", "reopen_fails"}

LOG_FILE_PATH == "logs/LOG_FILE/LOG_FILE"

\* logging.info raises when the handler's failure is not taken up by
\* Handler.handleError.
LoggingInfoRaises(outcome) == outcome \in {"stderr_closed", "reopen_fails"}

LoggingError(outcome) ==
    IF outcome = "stderr_closed"
      THEN ValueError(<<"I/O operation on closed file.">>)
      ELSE [type |-> "FileNotFoundError",
            args |-> <<"[Errno 2] No such file or directory:", LOG_FILE_PATH>>]

\* The record of a logging call is not in the log file.
RecordLost(outcome) == outcome # "written"

\* ------------------------------------------- the handler of lines 162-164
\* except Exception as e: raise CustomException(e, sys).  The frame is left:
\* nothing is returned and the locals are gone.
Raise(e, line_number) ==
    /\ pc' = "raised"
    /\ \E stdout \in StdoutOutcomes : error' = CustomException(e, line_number, stdout)
    /\ result' = Unbound
    /\ train_df' = Unbound /\ test_df' = Unbound
    /\ preprocessing_obj' = Unbound
    /\ input_feature_train_df' = Unbound /\ target_feature_train_df' = Unbound
    /\ input_feature_test_df' = Unbound /\ target_feature_test_df' = Unbound
    /\ input_feature_train_arr' = Unbound /\ input_feature_test_arr' = Unbound
    /\ train_arr' = Unbound /\ test_arr' = Unbound

\* ------------------------------------------- get_data_transformer_object
\* [ok, obj] or [ok, error]: the builder's own handler (lines 84-86) raises
\* a CustomException for a failure of the construction.
get_data_transformer_object(construction_ok, stdout) ==
    IF construction_ok
      THEN [ok |-> TRUE,
            obj |-> ColumnTransformer(
                      <<[name |-> "num_pipeline", columns |-> numerical_columns],
                        [name |-> "cat_pipelines", columns |-> categorical_columns]>>)]
      ELSE [ok |-> FALSE,
            error |-> CustomException(
                        [type |-> "MemoryError", args |-> <<"out of memory">>], 75,
                        stdout)]

\* ---------------------------------------------------------------- actions
\* Lines 92-99: read both files, then the log calls of lines 96 and 99.
ReadCsv(handler_outcomes) ==
    /\ pc = "read"
    /\ \/ \E line_number \in {92, 93} :
             /\ Raise([type |-> "FileNotFoundError",
                       args |-> <<"No such file or directory">>], line_number)
             /\ UNCHANGED <<artifact, log_lost, n_fit>>
       \/ \E log96 \in handler_outcomes, log99 \in handler_outcomes :
             IF LoggingInfoRaises(log96)
               THEN /\ Raise(LoggingError(log96), 96)
                    /\ log_lost' = TRUE
                    /\ UNCHANGED <<artifact, n_fit>>
             ELSE IF LoggingInfoRaises(log99)
               THEN /\ Raise(LoggingError(log99), 99)
                    /\ log_lost' = TRUE
                    /\ UNCHANGED <<artifact, n_fit>>
             ELSE \E shapes \in ShapePairs,
                     train_records \in SeqUpTo(RecordPool, MaxTrainRows),
                     test_records \in SeqUpTo(RecordPool, MaxTestRows) :
                    /\ train_df' = read_csv(CsvFile(shapes[1], train_records))
                    /\ test_df' = read_csv(CsvFile(shapes[2], test_records))
                    /\ log_lost' = (log_lost \/ RecordLost(log96) \/ RecordLost(log99))
                    /\ pc' = "build"
                    /\ UNCHANGED <<artifact, preprocessing_obj, input_feature_train_df,
                                   target_feature_train_df, input_feature_test_df,
                                   target_feature_test_df, input_feature_train_arr,
                                   input_feature_test_arr, train_arr, test_arr,
                                   result, error, n_fit>>

\* Line 100 (with the builder's log calls of lines 71-72).
Build(handler_outcomes) ==
    /\ pc = "build"
    /\ \E construction_ok \in BOOLEAN, stdout \in StdoutOutcomes,
          log71 \in handler_outcomes, log72 \in handler_outcomes :
          LET built == get_data_transformer_object(construction_ok, stdout)
          IN  IF LoggingInfoRaises(log71)
                THEN /\ Raise(CustomException(LoggingError(log71), 71, stdout), 100)
                     /\ log_lost' = TRUE
                     /\ UNCHANGED <<artifact, n_fit>>
              ELSE IF LoggingInfoRaises(log72)
                THEN /\ Raise(CustomException(LoggingError(log72), 72, stdout), 100)
                     /\ log_lost' = TRUE
                     /\ UNCHANGED <<artifact, n_fit>>
              ELSE IF ~built.ok
                THEN /\ Raise(built.error, 100)
                     /\ log_lost' = (log_lost \/ RecordLost(log71) \/ RecordLost(log72))
                     /\ UNCHANGED <<artifact, n_fit>>
              ELSE /\ preprocessing_obj' = built.obj
                   /\ log_lost' = (log_lost \/ RecordLost(log71) \/ RecordLost(log72))
                   /\ pc' = "split"
                   /\ UNCHANGED <<artifact, train_df, test_df, input_feature_train_df,
                                  target_feature_train_df, input_feature_test_df,
                                  target_feature_test_df, input_feature_train_arr,
                                  input_feature_test_arr, train_arr, test_arr,
                                  result, error, n_fit>>

KeyError(name) == [type |-> "KeyError", args |-> <<"['", name, "'] not found in axis">>]

\* Lines 108-113: split each table into features and target.
Split ==
    /\ pc = "split"
    /\ IF ~HasColumn(train_df, target_column_name)
         THEN /\ Raise(KeyError(target_column_name), 108)
              /\ UNCHANGED <<artifact, log_lost, n_fit>>
       ELSE IF ~HasColumn(test_df, target_column_name)
         THEN /\ Raise(KeyError(target_column_name), 112)
              /\ UNCHANGED <<artifact, log_lost, n_fit>>
       ELSE /\ input_feature_train_df' = drop(train_df, target_column_name)
            /\ target_feature_train_df' = ColumnValues(train_df, target_column_name)
            /\ input_feature_test_df' = drop(test_df, target_column_name)
            /\ target_feature_test_df' = ColumnValues(test_df, target_column_name)
            /\ pc' = "fit"
            /\ UNCHANGED <<artifact, log_lost, train_df, test_df, preprocessing_obj,
                           input_feature_train_arr, input_feature_test_arr,
                           train_arr, test_arr, result, error, n_fit>>

\* Fitting on the training and the test rows together.
FitTableWithTest(train_features, test_features) ==
    IF train_features.columns = test_features.columns
      THEN [train_features EXCEPT !.rows = train_features.rows \o test_features.rows]
      ELSE train_features

\* The table handed to fit_transform at line 119: the training features.
FitTable(train_features, test_features) == train_features

\* Lines 116-119: log, then fit on the training features and transform them.
FitTransformTrain(handler_outcomes) ==
    /\ pc = "fit"
    /\ \E log116 \in handler_outcomes :
          LET fit == ColumnTransformerFitTransform(
                        preprocessing_obj,
                        FitTable(input_feature_train_df, input_feature_test_df))
          IN  IF LoggingInfoRaises(log116)
                THEN /\ Raise(LoggingError(log116), 116)
                     /\ log_lost' = TRUE
                     /\ UNCHANGED <<artifact, n_fit>>
              ELSE IF ~fit.ok
                THEN /\ Raise(fit.error, 119)
                     /\ log_lost' = (log_lost \/ RecordLost(log116))
                     /\ UNCHANGED <<artifact, n_fit>>
              ELSE /\ preprocessing_obj' = fit.obj
                   /\ input_feature_train_arr' = fit.arr
                   /\ n_fit' = n_fit + fit.fits
                   /\ log_lost' = (log_lost \/ RecordLost(log116))
                   /\ pc' = "transform"
                   /\ UNCHANGED <<artifact, train_df, test_df, input_feature_train_df,
                                  target_feature_train_df, input_feature_test_df,
                                  target_feature_test_df, input_feature_test_arr,
                                  train_arr, test_arr, result, error>>

\* Line 128: transform the test features with the fitted preprocessor.
TransformTest ==
    /\ pc = "transform"
    /\ LET out == ColumnTransformerTransform(preprocessing_obj, input_feature_test_df)
       IN  IF ~out.ok
             THEN /\ Raise(out.error, 128)
                  /\ UNCHANGED <<artifact, log_lost, n_fit>>
           ELSE /\ input_feature_test_arr' = out.arr
                /\ preprocessing_obj' = out.obj
                /\ n_fit' = n_fit + out.fits
                /\ pc' = "concat"
                /\ UNCHANGED <<artifact, log_lost, train_df, test_df,
                               input_feature_train_df, target_feature_train_df,
                               input_feature_test_df, target_feature_test_df,
                               input_feature_train_arr, train_arr, test_arr,
                               result, error>>

ShapeError ==
    ValueError(<<"all the input array dimensions except for the concatenation axis must match exactly">>)

\* Lines 131-136: reattach each table's target as the last column.
Concat ==
    /\ pc = "concat"
    /\ IF ConcatFails(input_feature_train_arr)
         THEN /\ Raise(ShapeError, 131)
              /\ UNCHANGED <<artifact, log_lost, n_fit>>
       ELSE IF ConcatFails(input_feature_test_arr)
         THEN /\ Raise(ShapeError, 136)
              /\ UNCHANGED <<artifact, log_lost, n_fit>>
       ELSE /\ train_arr' = ConcatColumns(input_feature_train_arr, target_feature_train_df)
            /\ test_arr' = ConcatColumns(input_feature_test_arr, target_feature_test_df)
            /\ pc' = "save"
            /\ UNCHANGED <<artifact, log_lost, train_df, test_df, preprocessing_obj,
                           input_feature_train_df, target_feature_train_df,
                           input_feature_test_df, target_feature_test_df,
                           input_feature_train_arr, input_feature_test_arr,
                           result, error, n_fit>>

\* What a write that fails may leave at the location: what was there, or a
\* file that holds no object.
WriteOutcomes == {"written", "refused", "broken_off"}

BrokenArtifact == [exists |-> TRUE, broken |-> TRUE]

\* save_object(file_path, obj) of src/utils.py: the object is written to the
\* location, replacing what was there, or the write fails with an error.
\* What a failed write leaves at the location is not laid down: both outcomes
\* are taken.
save_object(file, obj, write) ==
    IF write = "written" THEN [ok |-> TRUE, file |-> [exists |-> TRUE, obj |-> obj]]
    ELSE [ok |-> FALSE,
          file |-> IF write = "refused" THEN file ELSE BrokenArtifact,
          error |-> [type |-> "OSError", args |-> <<"cannot write the artifact">>]]

\* Lines 139-154: log, then persist the fitted preprocessor.
Save(handler_outcomes) ==
    /\ pc = "save"
    /\ \E log139 \in handler_outcomes, write \in WriteOutcomes :
          LET saved == save_object(artifact, preprocessing_obj, write)
          IN  IF LoggingInfoRaises(log139)
                THEN /\ Raise(LoggingError(log139), 139)
                     /\ log_lost' = TRUE
                     /\ UNCHANGED <<artifact, n_fit>>
              ELSE IF ~saved.ok
                THEN /\ Raise(saved.error, 151)
                     /\ artifact' = saved.file
                     /\ log_lost' = (log_lost \/ RecordLost(log139))
                     /\ UNCHANGED n_fit
              ELSE /\ artifact' = saved.file
                   /\ log_lost' = (log_lost \/ RecordLost(log139))
                   /\ pc' = "return"
                   /\ UNCHANGED <<locals, result, error, n_fit>>

\* Lines 157-161.
Return ==
    /\ pc = "return"
    /\ result' = <<train_arr, test_arr, preprocessor_obj_file_path>>
    /\ pc' = "returned"
    /\ UNCHANGED <<artifact, log_lost, locals, error, n_fit>>

\* The call with a logging handler that works.
Next ==
    \/ ReadCsv(HandlerWorks)
    \/ Build(HandlerWorks)
    \/ Split
    \/ FitTransformTrain(HandlerWorks)
    \/ TransformTest
    \/ Concat
    \/ Save(HandlerWorks)
    \/ Return

Spec == Init /\ [][Next]_vars

\* The call with a logging handler that may fail on any record, with or
\* without Handler.handleError taking the failure up.
NextLogging ==
    \/ ReadCsv(HandlerMayFail)
    \/ Build(HandlerMayFail)
    \/ Split
    \/ FitTransformTrain(HandlerMayFail)
    \/ TransformTest
    \/ Concat
    \/ Save(HandlerMayFail)
    \/ Return

SpecLogging == InitLogging /\ [][NextLogging]_vars

\* ----------------------------------------------------------------- claims
Fitted == {"transform", "concat", "save", "return", "returned"}

TestTransformed == {"concat", "save", "return", "returned"}

Reattached == {"save", "return", "returned"}

\* The error a failure started from, under the errors raised while it was
\* being handled.
RECURSIVE RootCause(_)
RootCause(e) == IF "context" \in DOMAIN e THEN RootCause(e.context) ELSE e

\* The preprocessor as the builder returns it.
BuiltObj == get_data_transformer_object(TRUE, "printed").obj

\* The levels a table shows in a column.
ObservedLevels(df, c) == Range(Observed(ColumnValues(df, c)))

Width(matrix) == {Len(matrix[i]) : i \in DOMAIN matrix}

\* C1: the fitted preprocessor (medians, means and variances, most frequent
\* categories, level sets, scale factors) and the training matrix are a
\* function of the training table alone: in every state after the fit, also
\* after the test table has been transformed, they equal what fitting the
\* built preprocessor on the training features gives, whatever the test
\* table is.  Two runs on the same training table therefore agree on them.
Leakage_C1 ==
    pc \in Fitted =>
       LET ref == ColumnTransformerFitTransform(BuiltObj,
                                                drop(train_df, target_column_name))
       IN  /\ ref.ok
           /\ preprocessing_obj = ref.obj
           /\ input_feature_train_arr = ref.arr
           /\ pc \in Reattached =>
                 train_arr = ConcatColumns(ref.arr,
                                           ColumnValues(train_df, target_column_name))

\* A finished call whose test table, had it been fitted on, would have given
\* other statistics.
Witness_C1 ==
    /\ pc = "returned"
    /\ LET alt == ColumnTransformerFit(BuiltObj, input_feature_test_df)
       IN  alt.ok /\ alt.params # preprocessing_obj.params

\* C3: fit once, apply many.  No fit before line 119; from then on exactly
\* one fit has happened and the preprocessor is fitted; the test matrix is
\* what the preprocessor, as it is now, gives for the test features; and the
\* object that was saved is the one that reproduces both returned matrices.
FitOnce_C3 ==
    /\ pc \in {"read", "build", "split", "fit"} => n_fit = 0
    /\ pc \in Fitted => n_fit = 1 /\ preprocessing_obj.params.fitted
    /\ pc \in TestTransformed =>
          input_feature_test_arr =
             ColumnTransformerTransform(preprocessing_obj, input_feature_test_df).arr
    /\ pc \in {"return", "returned"} =>
          /\ artifact.obj = preprocessing_obj
          /\ train_arr =
                ConcatColumns(
                   ColumnTransformerTransform(artifact.obj, input_feature_train_df).arr,
                   target_feature_train_df)
          /\ test_arr =
                ConcatColumns(
                   ColumnTransformerTransform(artifact.obj, input_feature_test_df).arr,
                   target_feature_test_df)

\* A finished call whose test features are not its training features.
Witness_C3 ==
    /\ pc = "returned"
    /\ n_fit = 1
    /\ input_feature_test_df.rows # <<>>
    /\ input_feature_test_df.rows # input_feature_train_df.rows

\* C4 (as claimed): when the test table's levels are among the training
\* table's, every row of both returned matrices has (number of numeric
\* columns) + (sum over the categorical columns of the levels observed in the
\* training table) + 1 columns.
ColumnCount_C4 ==
    (/\ pc = "returned"
     /\ \A c \in Range(categorical_columns) :
           ObservedLevels(test_df, c) \subseteq ObservedLevels(train_df, c))
    => LET expected ==
              Len(numerical_columns)
                + SumSeq([k \in DOMAIN categorical_columns |->
                            Cardinality(ObservedLevels(train_df, categorical_columns[k]))])
                + 1
       IN  /\ Width(result[1]) = {expected}
           /\ Width(result[2]) = {expected}

\* C5 (as claimed): a table without the target column never gets past the
\* split (no fit happens on it), and the split of such tables fails with a CustomException
\* whose message names math_score, with the preprocessor still unfitted, no
\* matrix returned and the artifact untouched.
MissingTarget_C5 ==
    /\ [](pc \in {"fit"} \cup Fitted =>
             /\ HasColumn(train_df, target_column_name)
             /\ HasColumn(test_df, target_column_name))
    /\ [][(/\ pc = "split"
           /\ \/ ~HasColumn(train_df, target_column_name)
              \/ ~HasColumn(test_df, target_column_name))
          => /\ pc' = "raised"
             /\ error'.type = "CustomException"
             /\ "math_score" \in Range(error'.error_message)
             /\ ~preprocessing_obj.params.fitted
             /\ n_fit' = 0
             /\ result' = Unbound
             /\ artifact' = artifact]_vars

\* The text is part of the message, in one piece.
Contains(message, text) ==
    \E k \in 0..(Len(message) - Len(text)) :
       SubSeq(message, k + 1, k + Len(text)) = text

\* C6 (as claimed): a failed call ends with a CustomException and nothing
\* returned; its message holds the script name, the number of a line of the try block and,
\* in one piece, the text of the error that started the failure, which is
\* not itself a CustomException -- also when the builder had wrapped it once
\* already.  A call that returned holds no error.
StructuredError_C6 ==
    /\ pc = "raised" =>
          /\ error.type = "CustomException"
          /\ error.error_message[2] = ScriptName
          /\ error.error_message[4] \in {ToString(l) : l \in 91..161}
          /\ RootCause(error).type # "CustomException"
          /\ Contains(error.error_message, RootCause(error).args)
          /\ result = Unbound
    /\ pc = "returned" => error = Unbound

\* The row of a returned matrix that belongs to row i of a table: numeric
\* cells of the kept numeric columns in list order, then per kept categorical
\* column one cell per learned level, then the table's own target.
RowLayout(matrix, df) ==
    LET p == preprocessing_obj.params
        width == Len(p.num.kept)
                   + SumSeq([k \in DOMAIN p.cat.kept |->
                               Len(p.cat.categories[p.cat.kept[k]])])
                   + 1
    IN  /\ Len(matrix) = Len(df.rows)
        /\ \A i \in DOMAIN matrix :
              /\ Len(matrix[i]) = width
              /\ matrix[i] = NumPipelineRow(p.num, df.rows[i])
                               \o CatPipelineRow(p.cat, df.rows[i])
                               \o <<TargetCell(df.rows[i][target_column_name])>>

\* C7: the two lists and the target are pairwise disjoint; every column the
\* preprocessor reads is a listed one; and both matrices have, row for row in
\* the table's order, the numeric block, the one-hot block and the table's
\* own target last -- nothing else, whatever other columns the table has.
Layout_C7 ==
    /\ Range(numerical_columns) \cap Range(categorical_columns) = {}
    /\ target_column_name \notin
          Range(numerical_columns) \cup Range(categorical_columns)
    /\ pc \in Reattached =>
          /\ Range(preprocessing_obj.params.num.kept) \subseteq Range(numerical_columns)
          /\ Range(preprocessing_obj.params.cat.kept) \subseteq Range(categorical_columns)
          /\ RowLayout(train_arr, train_df)
          /\ RowLayout(test_arr, test_df)

\* A finished call on tables that carry a column in neither list, with
\* several training rows and targets that differ between the tables.
Witness_C7 ==
    /\ pc = "returned"
    /\ HasColumn(train_df, ExtraColumn) /\ HasColumn(test_df, ExtraColumn)
    /\ Len(train_df.rows) > 1 /\ Len(test_df.rows) > 0
    /\ train_df.rows[1][target_column_name] # test_df.rows[1][target_column_name]
    /\ train_df.rows[1][target_column_name] # train_df.rows[2][target_column_name]

\* x2 / 2 has at most half of the sample below it and at most half above.
IsWeakMedian2(x2, vals) ==
    /\ 2 * Cardinality({i \in DOMAIN vals : 2 * vals[i] < x2}) <= Len(vals)
    /\ 2 * Cardinality({i \in DOMAIN vals : 2 * vals[i] > x2}) <= Len(vals)

\* m2 / 2 is the median: the midpoint of the sample values that are weak
\* medians.
IsMedian2(m2, vals) ==
    LET mids == {v \in Range(vals) : IsWeakMedian2(2 * v, vals)}
    IN  \E lo, hi \in mids :
           /\ \A v \in mids : lo <= v /\ v <= hi
           /\ m2 = lo + hi

\* C8 (as claimed): for each numeric column the learned statistic is the
\* median of the training table's values, the scaler has been fitted on the
\* column filled with it, and every missing value of the column, in the
\* training and in the test table, comes out as the scaled median.
MedianImputation_C8 ==
    pc \in Reattached =>
       \A k \in DOMAIN numerical_columns :
          LET c == numerical_columns[k]
              vals == Observed(ColumnValues(train_df, c))
              p == preprocessing_obj.params.num
          IN  /\ p.statistics[c] # NaN
              /\ IsMedian2(p.statistics[c][1], vals)
              /\ p.scaler[c] =
                    ScalerFit([i \in DOMAIN train_df.rows |->
                                 IF train_df.rows[i][c] = NaN
                                   THEN p.statistics[c][1]
                                   ELSE 2 * train_df.rows[i][c][1]])
              /\ \A i \in DOMAIN train_df.rows :
                    train_df.rows[i][c] = NaN =>
                       train_arr[i][Position(p.kept, c)]
                          = StandardizeCell(p.statistics[c][1], p.scaler[c])
              /\ \A i \in DOMAIN test_df.rows :
                    test_df.rows[i][c] = NaN =>
                       test_arr[i][Position(p.kept, c)]
                          = StandardizeCell(p.statistics[c][1], p.scaler[c])

\* C9 (as claimed): with a logging handler that may fail on any record, no
\* call fails because of it (a failure always starts from another error),
\* and a call that returned holds what the tables alone determine: the
\* matrices of the preprocessor fitted on the training features, the
\* location, and the fitted preprocessor as the artifact.
LoggingFailure_C9 ==
    /\ pc = "raised" =>
          RootCause(error) \notin {LoggingError(o) : o \in HandlerMayFail}
    /\ pc = "returned" =>
          LET fit == ColumnTransformerFitTransform(BuiltObj,
                                                   drop(train_df, target_column_name))
              out == ColumnTransformerTransform(fit.obj,
                                                drop(test_df, target_column_name))
          IN  /\ result[1] = ConcatColumns(fit.arr,
                                           ColumnValues(train_df, target_column_name))
              /\ result[2] = ConcatColumns(out.arr,
                                           ColumnValues(test_df, target_column_name))
              /\ result[3] = preprocessor_obj_file_path
              /\ artifact = [exists |-> TRUE, obj |-> fit.obj]

\* C10 (as claimed): a test table that shows, in a categorical column, a
\* level the training table does not show in that column never gets past the
\* transform of line 128.
UnseenLevel_C10 ==
    pc \in TestTransformed =>
       \A c \in Range(categorical_columns) :
          ObservedLevels(input_feature_test_df, c)
             \subseteq ObservedLevels(input_feature_train_df, c)

====
